---------------------------- MODULE Spec2Model ----------------------------
(***************************************************************************)
(* PostureGuard front end: the Index page (rolling window of posture       *)
(* readings), the VideoCapture component (analysis timer and the mock      *)
(* classifier analyzePosture) and the StatsPanel component (the statistics *)
(* recomputed from the window).                                            *)
(*                                                                         *)
(* Numbers.  Math.random() is a draw in hundredths, 0..99.  A confidence   *)
(* is kept in thousandths (0.7 is 700).  A JavaScript number that may be   *)
(* fractional is a record [nan, num, den]: NaN, or the reduced fraction    *)
(* num/den (den = 0 stands for +-Infinity); rounding of doubles is not     *)
(* modelled.                                                               *)
(*                                                                         *)
(* React.  A state update queued from the timer callback (setCurrentPosture*)
(* setPostureData) takes effect at the next render; the queue is           *)
(* pendingData and Render applies it.                                      *)
(***************************************************************************)
EXTENDS Integers, Sequences, FiniteSets

VARIABLES
    currentActivity,  \* Index: useState<ActivityType>('squat')
    isAnalyzing,      \* Index: useState(false)
    postureData,      \* Index: useState<PostureData[]>([])
    currentPosture,   \* Index: useState<PostureData | null>(null); <<>> is null
    pendingData,      \* readings passed to handlePostureUpdate, not yet rendered
    stats,            \* StatsPanel: the value held by useMemo
    memoDeps,         \* StatsPanel: the postureData the memo was computed from
    tab,              \* which TabsContent (VideoCapture instance) is mounted
    cameraRequest,    \* getUserMedia promise of the mounted webcam instance
    hasCamera,        \* VideoCapture: useState(false)
    uploadedVideo,    \* VideoCapture: useState<File | null>(null), as a flag
    streamRef,        \* VideoCapture: useRef<MediaStream | null>(null), as a flag
    intervalRef,      \* VideoCapture: <<>> is null, <<t>> the timer returned by setInterval
    timers,           \* the interval timers that are set, each [id, activity]: its
                      \* handle and the activity its callback closed over
    clock,            \* Date.now(), relative to its value at the first render
    pushed,           \* history: every reading passed to handlePostureUpdate, in order
    lastDraw,         \* history: <<activity, random>> of the last call of analyzePosture
    denied            \* history: a call of getUserMedia has been rejected

vars == <<currentActivity, isAnalyzing, postureData, currentPosture, pendingData,
          stats, memoDeps, tab, cameraRequest, hasCamera, uploadedVideo,
          streamRef, intervalRef, timers, clock, pushed, lastDraw, denied>>

-----------------------------------------------------------------------------
(* Bounds of the model *)

MaxTicks == 3
MaxPending == 2
MaxLen == 6
MaxConfLen == 3
MaxPairLen == 3
MaxWindowTicks == 52
MaxDrawTicks == 2
MaxFullTicks == 2
FreeHead == 1

(* Program constants *)

Keep == 49
SquatBad == 30
SquatWarning == 50
DeskBad == 20
DeskWarning == 40
ConfBase == 700
ConfSpan == 3

ActivityType == {"squat", "desk-sitting"}
PostureStatus == {"good", "warning", "bad", "neutral"}

Min(a, b) == IF a < b THEN a ELSE b
Max(a, b) == IF a > b THEN a ELSE b

-----------------------------------------------------------------------------
(* JavaScript numbers *)

RECURSIVE Gcd(_, _)
Gcd(a, b) == IF b = 0 THEN a ELSE Gcd(b, a % b)

Abs(a) == IF a < 0 THEN -a ELSE a
Sign(a) == IF a < 0 THEN -1 ELSE IF a > 0 THEN 1 ELSE 0

NaN == [nan |-> TRUE, num |-> 0, den |-> 1]

\* the number n/d, d >= 0; 0/0 is NaN and n/0 is +-Infinity
Frac(n, d) ==
    IF d = 0
    THEN IF n = 0 THEN NaN ELSE [nan |-> FALSE, num |-> Sign(n), den |-> 0]
    ELSE LET g == Gcd(Abs(n), d)
         IN  [nan |-> FALSE, num |-> n \div g, den |-> d \div g]

Zero == Frac(0, 1)

NumDiv(a, b) == Frac(a, b)

NumSub(x, y) ==
    IF x.nan \/ y.nan THEN NaN
    ELSE IF x.den = 0 /\ y.den = 0
         THEN IF x.num = y.num THEN NaN ELSE x
    ELSE IF x.den = 0 THEN x
    ELSE IF y.den = 0 THEN [nan |-> FALSE, num |-> -y.num, den |-> 0]
    ELSE Frac(x.num * y.den - y.num * x.den, x.den * y.den)

NumMul(x, k) ==
    IF x.nan THEN NaN
    ELSE IF x.den = 0 THEN x
    ELSE Frac(x.num * k, x.den)

-----------------------------------------------------------------------------
(* Arrays *)

\* Array.prototype.slice(start, end) on a 1-based sequence
Slice(arr, start, end) ==
    LET len == Len(arr)
        k == IF start < 0 THEN Max(len + start, 0) ELSE Min(start, len)
        e == IF end < 0 THEN Max(len + end, 0) ELSE Min(end, len)
    IN  SubSeq(arr, k + 1, e)

SliceFrom(arr, start) == Slice(arr, start, Len(arr))

\* arr.filter(d => d.status === s).length
CountStatus(arr, s) == Len(SelectSeq(arr, LAMBDA d : d.status = s))

\* A loop is an operator on the loop's state, a record of its index i (1-based)
\* and its variables, applied until the loop ends.

\* arr.reduce((sum, d) => sum + d.confidence, 0)
RECURSIVE ReduceConfidence(_, _)
ReduceConfidence(arr, st) ==
    IF st.i > Len(arr) THEN st.sum
    ELSE ReduceConfidence(arr, [i |-> st.i + 1, sum |-> st.sum + arr[st.i].confidence])

\* variant: the reduction starts at the second reading
SumConfidenceSkipFirst(arr) == ReduceConfidence(arr, [i |-> 2, sum |-> 0])

SumConfidence(arr) == ReduceConfidence(arr, [i |-> 1, sum |-> 0])

-----------------------------------------------------------------------------
(* VideoCapture.tsx: the mock classifier *)

\* variant: else is missing before the second if of each activity, a draw
\* under the first threshold also runs the second branch
classifyFallThrough(activity, random) ==
    LET first == \/ (activity = "squat" /\ random < SquatBad)
                 \/ (activity = "desk-sitting" /\ random < DeskBad)
        second == \/ (activity = "squat" /\ random < SquatWarning)
                  \/ (activity = "desk-sitting" /\ random < DeskWarning)
        w1 == IF activity = "squat" THEN "Knee extends beyond toe" ELSE "Neck angle > 30 deg"
        w2 == IF activity = "squat" THEN "Back angle could be improved" ELSE "Back not straight"
    IN  [status |-> IF second THEN "warning" ELSE "good",
         warnings |-> (IF first THEN <<w1>> ELSE <<>>) \o (IF second THEN <<w2>> ELSE <<>>)]

\* variant: the thresholds are compared with <=
classifyInclusive(activity, random) ==
    IF activity = "squat"
    THEN IF random <= SquatBad
         THEN [status |-> "bad", warnings |-> <<"Knee extends beyond toe">>]
         ELSE IF random <= SquatWarning
         THEN [status |-> "warning", warnings |-> <<"Back angle could be improved">>]
         ELSE [status |-> "good", warnings |-> <<>>]
    ELSE IF activity = "desk-sitting"
    THEN IF random <= DeskBad
         THEN [status |-> "bad", warnings |-> <<"Neck angle > 30 deg">>]
         ELSE IF random <= DeskWarning
         THEN [status |-> "warning", warnings |-> <<"Back not straight">>]
         ELSE [status |-> "good", warnings |-> <<>>]
    ELSE [status |-> "good", warnings |-> <<>>]

\* the if chain on activity and random: status starts as good and warnings
\* empty, one branch at most assigns the status and pushes one warning
classify(activity, random) ==
    IF activity = "squat"
    THEN IF random < SquatBad
         THEN [status |-> "bad", warnings |-> <<"Knee extends beyond toe">>]
         ELSE IF random < SquatWarning
         THEN [status |-> "warning", warnings |-> <<"Back angle could be improved">>]
         ELSE [status |-> "good", warnings |-> <<>>]
    ELSE IF activity = "desk-sitting"
    THEN IF random < DeskBad
         THEN [status |-> "bad", warnings |-> <<"Neck angle > 30 deg">>]
         ELSE IF random < DeskWarning
         THEN [status |-> "warning", warnings |-> <<"Back not straight">>]
         ELSE [status |-> "good", warnings |-> <<>>]
    ELSE [status |-> "good", warnings |-> <<>>]

\* variant: the confidence is Math.random() * 0.7 + 0.3, the two numbers swapped
analyzePostureSwappedConfidence(activity, random, random2, now) ==
    [timestamp |-> now,
     status |-> classify(activity, random).status,
     warnings |-> classify(activity, random).warnings,
     confidence |-> random2 * (ConfBase \div 100) + ConfSpan * 100]

analyzePosture(activity, random, random2, now) ==
    [timestamp |-> now,
     status |-> classify(activity, random).status,
     warnings |-> classify(activity, random).warnings,
     confidence |-> random2 * ConfSpan + ConfBase]

-----------------------------------------------------------------------------
(* Index.tsx: the updater queued by handlePostureUpdate *)

\* variant: prev.slice(-50), one reading too many is kept
handlePostureUpdateKeepOneMore(prev, data) == SliceFrom(prev, -(Keep + 1)) \o <<data>>

\* variant: the new reading is put first, [data, ...prev.slice(-49)]
handlePostureUpdatePrepend(prev, data) == <<data>> \o SliceFrom(prev, -Keep)

handlePostureUpdate(prev, data) == SliceFrom(prev, -Keep) \o <<data>>

\* variant: setPostureData([...postureData.slice(-49), data]) on the list of the
\* last render, so that of several queued updates only the last one counts
ApplyUpdatesStale(prev, queue) ==
    IF queue = <<>> THEN prev
    ELSE handlePostureUpdate(prev, queue[Len(queue)])

\* the queued updaters prev => [...prev.slice(-49), data], applied in order
RECURSIVE ApplyUpdates(_, _)
ApplyUpdates(prev, queue) ==
    IF queue = <<>> THEN prev
    ELSE ApplyUpdates(handlePostureUpdate(prev, Head(queue)), Tail(queue))

-----------------------------------------------------------------------------
(* StatsPanel: the statistics *)

\* variant: the loop has no break, every good reading is counted
CurrentStreakNoBreak(arr, st) == st.currentStreak + CountStatus(arr, "good")

\* variant: the test is status !== 'bad'
RECURSIVE CurrentStreakNotBad(_, _)
CurrentStreakNotBad(arr, st) ==
    IF st.i >= 1 /\ arr[st.i].status # "bad"
    THEN CurrentStreakNotBad(arr, [i |-> st.i - 1, currentStreak |-> st.currentStreak + 1])
    ELSE st.currentStreak

\* for (let i = length - 1; i >= 0; i--) if good currentStreak++ else break
RECURSIVE CurrentStreakLoop(_, _)
CurrentStreakLoop(arr, st) ==
    IF st.i >= 1 /\ arr[st.i].status = "good"
    THEN CurrentStreakLoop(arr, [i |-> st.i - 1, currentStreak |-> st.currentStreak + 1])
    ELSE st.currentStreak

\* variant: the loop runs forward from the oldest reading
RECURSIVE CurrentStreakForward(_, _)
CurrentStreakForward(arr, st) ==
    IF st.i <= Len(arr) /\ arr[st.i].status = "good"
    THEN CurrentStreakForward(arr, [i |-> st.i + 1, currentStreak |-> st.currentStreak + 1])
    ELSE st.currentStreak

currentStreakFromStart(arr) == CurrentStreakForward(arr, [i |-> 1, currentStreak |-> 0])

currentStreakOf(arr) == CurrentStreakLoop(arr, [i |-> Len(arr), currentStreak |-> 0])

\* variant: tempStreak is not reset by a reading that is not good
LongestStreakBodyNoReset(arr, st) ==
    IF arr[st.i].status = "good"
    THEN [i |-> st.i + 1,
          tempStreak |-> st.tempStreak + 1,
          longestStreak |-> Max(st.longestStreak, st.tempStreak + 1)]
    ELSE [i |-> st.i + 1,
          tempStreak |-> st.tempStreak,
          longestStreak |-> st.longestStreak]

\* variant: a neutral reading is skipped, it does not end the streak
LongestStreakBodyNeutralSkips(arr, st) ==
    IF arr[st.i].status = "good"
    THEN [i |-> st.i + 1,
          tempStreak |-> st.tempStreak + 1,
          longestStreak |-> Max(st.longestStreak, st.tempStreak + 1)]
    ELSE [i |-> st.i + 1,
          tempStreak |-> IF arr[st.i].status = "neutral" THEN st.tempStreak ELSE 0,
          longestStreak |-> st.longestStreak]

\* the forEach callback of longestStreak on reading arr[st.i]
LongestStreakBody(arr, st) ==
    IF arr[st.i].status = "good"
    THEN [i |-> st.i + 1,
          tempStreak |-> st.tempStreak + 1,
          longestStreak |-> Max(st.longestStreak, st.tempStreak + 1)]
    ELSE [i |-> st.i + 1,
          tempStreak |-> 0,
          longestStreak |-> st.longestStreak]

\* postureData.forEach(...)
RECURSIVE LongestStreakLoop(_, _)
LongestStreakLoop(arr, st) ==
    IF st.i > Len(arr) THEN st.longestStreak
    ELSE LongestStreakLoop(arr, LongestStreakBody(arr, st))

longestStreakOf(arr) ==
    LongestStreakLoop(arr, [i |-> 1, tempStreak |-> 0, longestStreak |-> 0])

\* variant: Math.ceil(total / 2)
halfPointCeil(total) == (total + 1) \div 2

halfPointOf(total) == total \div 2

improvementOf(arr) ==
    LET total == Len(arr)
        halfPoint == halfPointOf(total)
        firstHalf == Slice(arr, 0, halfPoint)
        secondHalf == SliceFrom(arr, halfPoint)
        firstHalfGood == NumDiv(CountStatus(firstHalf, "good"), Len(firstHalf))
        secondHalfGood == NumDiv(CountStatus(secondHalf, "good"), Len(secondHalf))
    IN  NumMul(NumSub(secondHalfGood, firstHalfGood), 100)

EmptyStats ==
    [totalReadings |-> 0,
     goodPosture |-> 0,
     warningPosture |-> 0,
     badPosture |-> 0,
     averageConfidence |-> Zero,
     currentStreak |-> 0,
     longestStreak |-> 0,
     improvement |-> Zero]

\* variant: warningPosture counts the readings that carry a warning
ComputeStatsByWarnings(arr) ==
    [totalReadings |-> Len(arr),
     goodPosture |-> CountStatus(arr, "good"),
     warningPosture |-> Len(SelectSeq(arr, LAMBDA d : d.warnings # <<>>)),
     badPosture |-> CountStatus(arr, "bad"),
     averageConfidence |-> NumDiv(SumConfidence(arr), Len(arr)),
     currentStreak |-> currentStreakOf(arr),
     longestStreak |-> longestStreakOf(arr),
     improvement |-> improvementOf(arr)]

ComputeStats(arr) ==
    [totalReadings |-> Len(arr),
     goodPosture |-> CountStatus(arr, "good"),
     warningPosture |-> CountStatus(arr, "warning"),
     badPosture |-> CountStatus(arr, "bad"),
     averageConfidence |-> NumDiv(SumConfidence(arr), Len(arr)),
     currentStreak |-> currentStreakOf(arr),
     longestStreak |-> longestStreakOf(arr),
     improvement |-> improvementOf(arr)]

\* variant: no early return for the empty list
StatsOfNoEmptyCase(arr) == ComputeStats(arr)

StatsOf(arr) == IF Len(arr) = 0 THEN EmptyStats ELSE ComputeStats(arr)


-----------------------------------------------------------------------------
(* Inputs *)

\* Math.random(), in hundredths
Randoms == 0..99

\* one draw for each status, with either activity: bad, warning, good
StatusRandoms == {0, SquatBad, 99}

\* the second Math.random(), of the confidence
ConfRandoms == {0, 99}

\* One timer callback reads <<random, random2, dt>>: the two draws and the change
\* of Date.now() since the last callback.  Date.now() is the system's wall clock:
\* it stands still within a millisecond and steps back when the clock is set back.
\* A reading of each status with the lowest confidence one step later, a reading
\* with the highest confidence in the same millisecond as the one before, and a
\* reading taken after the clock was set back.
TickInputs ==
    {<<r, 0, 1>> : r \in StatusRandoms} \cup {<<99, 99, 0>>, <<99, 99, -1>>}

\* every first draw, with the lowest and the highest confidence
DrawInputs == {<<r, c, 1>> : r \in Randoms, c \in ConfRandoms}

\* the draws of the long run: free for the first FreeHead readings and for those
\* pushed into the full window, one fixed draw in between
WindowRandoms(n) ==
    IF n < FreeHead \/ n > Keep THEN StatusRandoms ELSE {99}

\* a bad reading comes with the lowest confidence, the others with the highest
WindowInputs(n) == {<<r, IF r = 0 THEN 0 ELSE 99, 1>> : r \in WindowRandoms(n)}

-----------------------------------------------------------------------------
(* State after the first render of Index with the Live Camera tab selected *)

Init ==
    /\ currentActivity = "squat"
    /\ isAnalyzing = FALSE
    /\ postureData = <<>>
    /\ currentPosture = <<>>
    /\ pendingData = <<>>
    /\ stats = StatsOf(<<>>)
    /\ memoDeps = <<>>
    /\ tab = "webcam"
    /\ cameraRequest = "pending"
    /\ hasCamera = FALSE
    /\ uploadedVideo = FALSE
    /\ streamRef = FALSE
    /\ intervalRef = <<>>
    /\ timers = <<>>
    /\ clock = 0
    /\ pushed = <<>>
    /\ lastDraw = <<>>
    /\ denied = FALSE

-----------------------------------------------------------------------------
(* VideoCapture.tsx *)

\* checkCameraAccess: getUserMedia resolves
CameraGranted ==
    /\ cameraRequest = "pending"
    /\ hasCamera' = TRUE
    /\ streamRef' = TRUE
    /\ cameraRequest' = "none"
    /\ UNCHANGED <<currentActivity, isAnalyzing, postureData, currentPosture,
                   pendingData, stats, memoDeps, tab, uploadedVideo, intervalRef,
                   timers, clock, pushed, lastDraw, denied>>

\* checkCameraAccess: getUserMedia rejects
CameraDenied ==
    /\ cameraRequest = "pending"
    /\ hasCamera' = FALSE
    /\ cameraRequest' = "none"
    /\ denied' = TRUE
    /\ UNCHANGED <<currentActivity, isAnalyzing, postureData, currentPosture,
                   pendingData, stats, memoDeps, tab, uploadedVideo, streamRef,
                   intervalRef, timers, clock, pushed, lastDraw>>

\* handleVideoUpload: the Upload Video button is enabled while not analyzing
handleVideoUpload ==
    /\ tab = "upload"
    /\ ~isAnalyzing
    /\ uploadedVideo' = TRUE
    /\ UNCHANGED <<currentActivity, isAnalyzing, postureData, currentPosture,
                   pendingData, stats, memoDeps, tab, cameraRequest, hasCamera,
                   streamRef, intervalRef, timers, clock, pushed, lastDraw, denied>>

\* variant: the button has no disabled attribute
StartEnabledNoSource == ~isAnalyzing

\* variant: the button is shown while analyzing too
StartEnabledWhileAnalyzing ==
    ~((tab = "webcam" /\ ~hasCamera) \/ (tab = "upload" /\ ~uploadedVideo))

\* the Start Analysis button: shown while not analyzing, disabled without a source
StartEnabled ==
    /\ ~isAnalyzing
    /\ ~((tab = "webcam" /\ ~hasCamera) \/ (tab = "upload" /\ ~uploadedVideo))

\* setInterval: a timer with a handle no set timer has, whose callback closes
\* over the activity prop of this render
SetInterval(activity) ==
    LET used == {timers[k].id : k \in 1..Len(timers)}
    IN  [id |-> CHOOSE n \in 1..(Len(timers) + 1) : n \notin used,
         activity |-> activity]

\* the video element is rendered with the component, so videoRef.current is set
\* whenever the button can be clicked
startAnalysis ==
    /\ StartEnabled
    /\ isAnalyzing' = TRUE
    /\ LET t == SetInterval(currentActivity)
       IN  /\ timers' = Append(timers, t)
           /\ intervalRef' = <<t>>
    /\ UNCHANGED <<currentActivity, postureData, currentPosture, pendingData,
                   stats, memoDeps, tab, cameraRequest, hasCamera, uploadedVideo,
                   streamRef, clock, pushed, lastDraw, denied>>

\* clearInterval(t)
ClearInterval(t) == SelectSeq(timers, LAMBDA u : u # t)

\* variant: clearInterval is forgotten
StopEffectKeepsTimer ==
    /\ isAnalyzing' = FALSE
    /\ timers' = timers
    /\ intervalRef' = intervalRef

\* the body of stopAnalysis
StopEffect ==
    /\ isAnalyzing' = FALSE
    /\ timers' = IF intervalRef # <<>> THEN ClearInterval(intervalRef[1]) ELSE timers
    /\ intervalRef' = <<>>

\* variant: stopping also resets the readings
stopAnalysisClearing ==
    /\ isAnalyzing
    /\ StopEffect
    /\ postureData' = <<>>
    /\ currentPosture' = <<>>
    /\ pendingData' = <<>>
    /\ UNCHANGED <<currentActivity, stats, memoDeps, tab, cameraRequest, hasCamera,
                   uploadedVideo, streamRef, clock, pushed, lastDraw, denied>>

\* the Stop Analysis button: shown while analyzing
stopAnalysis ==
    /\ isAnalyzing
    /\ StopEffect
    /\ UNCHANGED <<currentActivity, postureData, currentPosture, pendingData,
                   stats, memoDeps, tab, cameraRequest, hasCamera, uploadedVideo,
                   streamRef, clock, pushed, lastDraw, denied>>

\* variant: the callback reads the activity now selected, not the one it closed over
TickWithCurrentActivity(limit, inputs) ==
    /\ Len(pushed) < limit
    /\ Len(pendingData) < MaxPending
    /\ \E k \in 1..Len(timers) : \E in \in inputs :
          LET data == analyzePosture(currentActivity, in[1], in[2], clock + in[3])
          IN  /\ clock' = clock + in[3]
              /\ pendingData' = Append(pendingData, data)
              /\ pushed' = Append(pushed, data)
              /\ lastDraw' = <<currentActivity, in[1]>>
    /\ UNCHANGED <<currentActivity, isAnalyzing, postureData, currentPosture,
                   stats, memoDeps, tab, cameraRequest, hasCamera, uploadedVideo,
                   streamRef, intervalRef, timers, denied>>

\* the setInterval callback: analyzePosture, then onPostureUpdate queues the reading
TickWith(limit, inputs) ==
    /\ Len(pushed) < limit
    /\ Len(pendingData) < MaxPending
    /\ \E k \in 1..Len(timers) : \E in \in inputs :
          LET data == analyzePosture(timers[k].activity, in[1], in[2], clock + in[3])
          IN  /\ clock' = clock + in[3]
              /\ pendingData' = Append(pendingData, data)
              /\ pushed' = Append(pushed, data)
              /\ lastDraw' = <<timers[k].activity, in[1]>>
    /\ UNCHANGED <<currentActivity, isAnalyzing, postureData, currentPosture,
                   stats, memoDeps, tab, cameraRequest, hasCamera, uploadedVideo,
                   streamRef, intervalRef, timers, denied>>

Tick == TickWith(MaxTicks, TickInputs)

TickWindow == TickWith(MaxWindowTicks, WindowInputs(Len(pushed)))

TickDraw == TickWith(MaxDrawTicks, DrawInputs)

-----------------------------------------------------------------------------
(* Index.tsx *)

\* variant: choosing an activity also resets the readings
setCurrentActivityClearing ==
    /\ \E a \in ActivityType : currentActivity' = a
    /\ postureData' = <<>>
    /\ currentPosture' = <<>>
    /\ pendingData' = <<>>
    /\ stats' = StatsOf(<<>>)
    /\ memoDeps' = <<>>
    /\ UNCHANGED <<isAnalyzing, tab, cameraRequest, hasCamera, uploadedVideo,
                   streamRef, intervalRef, timers, clock, pushed, lastDraw, denied>>

\* ActivitySelector: onActivityChange={setCurrentActivity}
setCurrentActivity ==
    /\ \E a \in ActivityType : currentActivity' = a
    /\ UNCHANGED <<isAnalyzing, postureData, currentPosture, pendingData, stats,
                   memoDeps, tab, cameraRequest, hasCamera, uploadedVideo,
                   streamRef, intervalRef, timers, clock, pushed, lastDraw, denied>>

\* a TabsTrigger: the mounted VideoCapture unmounts (its effect cleanup calls
\* stopAnalysis) and the other one mounts with fresh state (webcam: checkCameraAccess)
SwitchTab ==
    /\ tab' = IF tab = "webcam" THEN "upload" ELSE "webcam"
    /\ StopEffect
    /\ hasCamera' = FALSE
    /\ uploadedVideo' = FALSE
    /\ streamRef' = FALSE
    /\ cameraRequest' = IF tab' = "webcam" THEN "pending" ELSE "none"
    /\ UNCHANGED <<currentActivity, postureData, currentPosture, pendingData,
                   stats, memoDeps, clock, pushed, lastDraw, denied>>

\* variant: the first half is taken with splice(0, halfPoint), which removes it
\* from the array held in the state
RenderSplicing ==
    /\ postureData' =
          LET arr == ApplyUpdates(postureData, pendingData)
          IN  SliceFrom(arr, halfPointOf(Len(arr)))
    /\ currentPosture' =
          IF pendingData = <<>> THEN currentPosture
          ELSE <<pendingData[Len(pendingData)]>>
    /\ pendingData' = <<>>
    /\ stats' = StatsOf(ApplyUpdates(postureData, pendingData))
    /\ memoDeps' = postureData'
    /\ UNCHANGED <<currentActivity, isAnalyzing, tab, cameraRequest, hasCamera,
                   uploadedVideo, streamRef, intervalRef, timers, clock, pushed,
                   lastDraw, denied>>

\* a render of Index and StatsPanel: the queued updates are applied in order,
\* then useMemo recomputes the statistics if postureData changed
Render ==
    /\ postureData' = ApplyUpdates(postureData, pendingData)
    /\ currentPosture' =
          IF pendingData = <<>> THEN currentPosture
          ELSE <<pendingData[Len(pendingData)]>>
    /\ pendingData' = <<>>
    /\ stats' = IF memoDeps = postureData' THEN stats ELSE StatsOf(postureData')
    /\ memoDeps' = postureData'
    /\ UNCHANGED <<currentActivity, isAnalyzing, tab, cameraRequest, hasCamera,
                   uploadedVideo, streamRef, intervalRef, timers, clock, pushed,
                   lastDraw, denied>>

Next ==
    \/ CameraGranted
    \/ CameraDenied
    \/ handleVideoUpload
    \/ startAnalysis
    \/ stopAnalysis
    \/ Tick
    \/ setCurrentActivity
    \/ SwitchTab
    \/ Render

Spec == Init /\ [][Next]_vars

-----------------------------------------------------------------------------
(* The long run: one uninterrupted analysis that fills the window and goes on *)

NextWindow ==
    \/ CameraGranted
    \/ startAnalysis
    \/ TickWindow
    \/ Render

SpecWindow == Init /\ [][NextWindow]_vars

\* a render that applies queued updates: the step that empties the queue
RenderQueued == pendingData # <<>> /\ pendingData' = <<>>

\* The long run with its scheduling: a set interval timer keeps calling back, and
\* React renders once updates are queued.
SpecWindowFair ==
    /\ Init
    /\ [][NextWindow]_vars
    /\ WF_vars(TickWindow)
    /\ WF_pendingData(RenderQueued)

-----------------------------------------------------------------------------
(* The page with a full window: it starts in the state the long run reaches    *)
(* after fifty good readings of squat, all applied, with the analysis still    *)
(* running; from there every operation of the page is taken, so that runs are  *)
(* stopped, restarted and moved between tabs and activities while newer        *)
(* readings evict the older ones                                               *)

FullRun == [i \in 1..(Keep + 1) |-> analyzePosture("squat", 99, 99, i)]

InitFull ==
    /\ currentActivity = "squat"
    /\ isAnalyzing = TRUE
    /\ postureData = FullRun
    /\ currentPosture = <<FullRun[Keep + 1]>>
    /\ pendingData = <<>>
    /\ stats = StatsOf(FullRun)
    /\ memoDeps = FullRun
    /\ tab = "webcam"
    /\ cameraRequest = "none"
    /\ hasCamera = TRUE
    /\ uploadedVideo = FALSE
    /\ streamRef = TRUE
    /\ intervalRef = <<[id |-> 1, activity |-> "squat"]>>
    /\ timers = <<[id |-> 1, activity |-> "squat"]>>
    /\ clock = Keep + 1
    /\ pushed = FullRun
    /\ lastDraw = <<"squat", 99>>
    /\ denied = FALSE

TickFull == TickWith(Keep + 1 + MaxFullTicks, WindowInputs(Len(pushed)))

NextFullPage ==
    \/ CameraGranted
    \/ CameraDenied
    \/ handleVideoUpload
    \/ startAnalysis
    \/ stopAnalysis
    \/ TickFull
    \/ setCurrentActivity
    \/ SwitchTab
    \/ Render

SpecFullPage == InitFull /\ [][NextFullPage]_vars

-----------------------------------------------------------------------------
(* The classifier: a run in which the timer callback draws any Math.random()  *)

NextProducer ==
    \/ CameraGranted
    \/ setCurrentActivity
    \/ startAnalysis
    \/ TickDraw
    \/ Render

SpecProducer == Init /\ [][NextProducer]_vars

-----------------------------------------------------------------------------
(* StatsPanel on its own: it is mounted with an empty list and then receives *)
(* any PostureData[] as its postureData prop                                 *)

Reading(s, c, t) ==
    [timestamp |-> t, status |-> s, warnings |-> <<>>, confidence |-> c]

Confidences == {r * ConfSpan + ConfBase : r \in ConfRandoms}

\* any list of up to MaxLen readings of one confidence, or of up to MaxConfLen
\* readings of any of the confidences
IsBuffer(arr) ==
    \/ \E n \in 0..MaxLen : \E f \in [1..n -> PostureStatus] :
          arr = [i \in 1..n |-> Reading(f[i], ConfBase, i)]
    \/ \E n \in 0..MaxConfLen : \E f \in [1..n -> PostureStatus \X Confidences] :
          arr = [i \in 1..n |-> Reading(f[i][1], f[i][2], i)]

InitStats ==
    /\ currentActivity = "squat"
    /\ isAnalyzing = FALSE
    /\ IsBuffer(postureData)
    /\ currentPosture = <<>>
    /\ pendingData = <<>>
    /\ stats = StatsOf(<<>>)
    /\ memoDeps = <<>>
    /\ tab = "webcam"
    /\ cameraRequest = "pending"
    /\ hasCamera = FALSE
    /\ uploadedVideo = FALSE
    /\ streamRef = FALSE
    /\ intervalRef = <<>>
    /\ timers = <<>>
    /\ clock = 0
    /\ pushed = <<>>
    /\ lastDraw = <<>>
    /\ denied = FALSE

NextStats == Render

SpecStats == InitStats /\ [][NextStats]_vars


-----------------------------------------------------------------------------
(* Vocabulary of the properties *)

\* the readings whose update has been applied by a render, oldest first
Applied == SubSeq(pushed, 1, Len(pushed) - Len(pendingData))

\* the last n elements of seq
LastOf(seq, n) == SubSeq(seq, Len(seq) - n + 1, Len(seq))

StatusesOf(arr) == [i \in 1..Len(arr) |-> arr[i].status]

\* the statistics on display are those of the current window
Fresh == memoDeps = postureData

GoodAt(arr) == {i \in 1..Len(arr) : arr[i].status = "good"}

\* lengths k such that the last k readings are all good
GoodSuffixes(arr) ==
    {k \in 0..Len(arr) : \A i \in (Len(arr) - k + 1)..Len(arr) : i \in GoodAt(arr)}

\* lengths of the runs i..j of good readings
GoodRuns(arr) ==
    {j - i + 1 : <<i, j>> \in
        {r \in (1..Len(arr)) \X (1..Len(arr)) :
            r[1] <= r[2] /\ \A m \in r[1]..r[2] : m \in GoodAt(arr)}}

Largest(S) == CHOOSE m \in S : \A n \in S : n <= m

\* arr with the status f[i] at every position i that does not hold good
Recategorised(arr, f) ==
    [i \in 1..Len(arr) |->
        IF arr[i].status = "good" THEN arr[i] ELSE [arr[i] EXCEPT !.status = f[i]]]

\* the two streaks and the trend of st are those of the list arr
SameStreaksAndTrend(st, arr) ==
    LET other == StatsOf(arr)
    IN  /\ st.currentStreak = other.currentStreak
        /\ st.longestStreak = other.longestStreak
        /\ st.improvement = other.improvement

\* the sum over the confidences c in S of c times the readings of arr that have it
RECURSIVE TotalOf(_, _)
TotalOf(S, arr) ==
    IF S = {} THEN 0
    ELSE LET c == CHOOSE x \in S : TRUE
         IN  c * Cardinality({i \in 1..Len(arr) : arr[i].confidence = c})
                + TotalOf(S \ {c}, arr)

\* the getUserMedia call of the mounted webcam view has been rejected
CameraRejected == tab = "webcam" /\ cameraRequest = "none" /\ ~hasCamera

\* the warnings the draw r gives with an activity
WarningsFor(activity, r) ==
    IF activity = "squat"
    THEN IF r < 30 THEN <<"Knee extends beyond toe">>
         ELSE IF r < 50 THEN <<"Back angle could be improved">> ELSE <<>>
    ELSE IF r < 20 THEN <<"Neck angle > 30 deg">>
         ELSE IF r < 40 THEN <<"Back not straight">> ELSE <<>>

\* a counter of good readings in a row, kept up to date on each reading of the
\* queue and capped at the window size
RECURSIVE RunningCounter(_, _)
RunningCounter(c, queue) ==
    IF queue = <<>> THEN c
    ELSE RunningCounter(IF Head(queue).status = "good" THEN Min(c + 1, 50) ELSE 0,
                        Tail(queue))

\* arr with the timestamp t and the warnings w in every reading
Relabelled(arr, t, w) ==
    [i \in 1..Len(arr) |->
        [timestamp |-> t, status |-> arr[i].status, warnings |-> w,
         confidence |-> arr[i].confidence]]

AllZero(st) ==
    /\ st.totalReadings = 0
    /\ st.goodPosture = 0
    /\ st.warningPosture = 0
    /\ st.badPosture = 0
    /\ st.averageConfidence = [nan |-> FALSE, num |-> 0, den |-> 1]
    /\ st.currentStreak = 0
    /\ st.longestStreak = 0
    /\ st.improvement = [nan |-> FALSE, num |-> 0, den |-> 1]

-----------------------------------------------------------------------------
(* Properties *)

\* C1 (SpecWindow).  Window bound, FIFO eviction: after k readings have been
\* pushed and applied, starting from the empty list, postureData is the last
\* min(k, 50) of them in their original order, and the panel's total is min(k, 50).
C1_WindowBound ==
    /\ postureData = LastOf(Applied, Min(Len(Applied), 50))
    /\ stats.totalReadings = Min(Len(Applied), 50)

\* 52 readings applied: the two oldest are gone, the window starts at the third
C1_Witness ==
    /\ Len(Applied) = 52
    /\ Len(postureData) = 50
    /\ postureData[1] = pushed[3]
    /\ postureData[1] # pushed[1]

\* C2 (SpecStats).  Count conservation: for a list over good, warning, bad and
\* neutral, the per-category counts of the statistics add up to the total.
C2_CountConservation ==
    Fresh => stats.goodPosture + stats.warningPosture + stats.badPosture
                = stats.totalReadings

\* C3 (SpecWindow).  Streak bound: 0 <= currentStreak <= longestStreak <= total
\* in every state reached by pushing readings.
C3_StreakBound ==
    /\ 0 <= stats.currentStreak
    /\ stats.currentStreak <= stats.longestStreak
    /\ stats.longestStreak <= stats.totalReadings

\* past the window size, with the three numbers apart
C3_Witness ==
    /\ Len(Applied) > 50
    /\ 0 < stats.currentStreak
    /\ stats.currentStreak < stats.longestStreak
    /\ stats.longestStreak < stats.totalReadings

\* C4 (SpecStats).  Current streak: currentStreak is the length of the longest
\* suffix of the list made of good readings only; 0 when the last reading is not
\* good or the list is empty.
C4_CurrentStreak ==
    Fresh =>
        /\ stats.currentStreak = Largest(GoodSuffixes(postureData))
        /\ (postureData = <<>> \/ postureData[Len(postureData)].status # "good")
              => stats.currentStreak = 0

C4_Witness ==
    /\ Fresh
    /\ StatusesOf(postureData) = <<"good", "good", "warning", "good", "good", "good">>
    /\ stats.currentStreak = 3

\* C5 (SpecStats).  Longest streak: longestStreak is the greatest length of a run
\* of consecutive good readings anywhere in the list, 0 if there is none.
C5_LongestStreak ==
    Fresh => stats.longestStreak = Largest(GoodRuns(postureData) \cup {0})

\* the longest run is neither at the end nor the number of good readings
C5_Witness ==
    /\ Fresh
    /\ StatusesOf(postureData) = <<"good", "good", "bad", "good", "neutral">>
    /\ stats.longestStreak = 2

\* C6 (SpecStats).  Trend split: for a list of at least 2 readings, with h =
\* floor(total / 2), g1 the good readings among the first h and g2 those among
\* the rest, trend = (g2 / (total - h) - g1 / h) * 100.
C6_TrendSplit ==
    (Fresh /\ Len(postureData) >= 2) =>
        LET total == Len(postureData)
            h == total \div 2
            g1 == Cardinality({i \in GoodAt(postureData) : i <= h})
            g2 == Cardinality({i \in GoodAt(postureData) : i > h})
        IN  /\ ~stats.improvement.nan
            /\ stats.improvement.den > 0
            /\ stats.improvement.num * h * (total - h)
                  = 100 * (g2 * h - g1 * (total - h)) * stats.improvement.den

C6_Witness ==
    /\ Fresh
    /\ StatusesOf(postureData) = <<"bad", "bad", "good", "good", "good">>
    /\ stats.improvement = [nan |-> FALSE, num |-> 100, den |-> 1]

\* C7 (Spec).  Trend with an empty half: when the first or the second half
\* of the split is empty, the trend is the number 0.
C7_TrendEmptyHalf ==
    LET total == Len(postureData)
        h == total \div 2
    IN  (Fresh /\ (h = 0 \/ total - h = 0)) =>
            stats.improvement = [nan |-> FALSE, num |-> 0, den |-> 1]

\* C8 (Spec).  Empty defaults: while the list is empty (from construction until
\* the first push is applied) every field of the statistics is 0.
C8_EmptyDefaults == postureData = <<>> => AllZero(stats)

\* analysis is running and a reading is queued, none applied yet
C8_Witness ==
    /\ postureData = <<>>
    /\ isAnalyzing
    /\ pendingData # <<>>

C11_OnlyGoodMatters ==
    Fresh =>
        LET n == Len(postureData)
        IN  /\ SameStreaksAndTrend(stats, Recategorised(postureData, [i \in 1..n |-> "bad"]))
            /\ n <= MaxPairLen =>
                  \A f \in [1..n -> PostureStatus \ {"good"}] :
                      SameStreaksAndTrend(stats, Recategorised(postureData, f))

\* the positions without good hold two different categories, around good ones
C11_Witness ==
    /\ Fresh
    /\ StatusesOf(postureData) = <<"good", "warning", "good", "neutral", "good", "good">>
    /\ stats.currentStreak = 2
    /\ stats.longestStreak = 2

\* C12 (Spec).  Well-formed events: every reading held in the list has a status
\* among good, warning, bad and neutral and a confidence within [0, 1]; coming
\* from analyzePosture, the confidence is within [0.7, 1.0].
C12_WellFormed ==
    \A i \in 1..Len(postureData) :
        /\ postureData[i].status \in {"good", "warning", "bad", "neutral"}
        /\ 0 <= postureData[i].confidence /\ postureData[i].confidence <= 1000
        /\ 700 <= postureData[i].confidence

\* the list holds a reading of the lowest and one of the highest confidence drawn
C12_Witness ==
    \E i, j \in 1..Len(postureData) :
        /\ postureData[i].confidence = 700
        /\ postureData[j].confidence = 997
        /\ postureData[i].status # postureData[j].status

\* C13 (SpecWindow).  Average confidence: averageConfidence is the arithmetic mean
\* of the confidences of the readings now in the window, the last 50 applied at
\* most; it lies between the least and the greatest of them, and it is 0 for the
\* empty list.
C13_AverageConfidence ==
    LET window == LastOf(Applied, Min(Len(Applied), 50))
        n == Len(window)
        confs == {window[i].confidence : i \in 1..n}
        avg == stats.averageConfidence
    IN  /\ n = 0 => avg = [nan |-> FALSE, num |-> 0, den |-> 1]
        /\ n > 0 =>
              /\ ~avg.nan
              /\ avg.den > 0
              /\ avg.num * n = TotalOf(confs, window) * avg.den
              /\ \E c \in confs : c * avg.den <= avg.num
              /\ \E c \in confs : avg.num <= c * avg.den

\* the first reading, of confidence 0.7, has left the window and does not count;
\* the last one has the same confidence and does, so the mean is strictly between
C13_Witness ==
    /\ Len(Applied) = 52
    /\ pushed[1].confidence = 700
    /\ pushed[2].confidence = 997
    /\ stats.averageConfidence.num * 50 = (49 * 997 + 700) * stats.averageConfidence.den

\* C14 (Spec).  Timestamp order: the readings in the list are in non-decreasing
\* order of timestamp, each one stamped no earlier than the one pushed before it.
C14_TimestampOrder ==
    \A i \in 1..(Len(postureData) - 1) :
        postureData[i].timestamp <= postureData[i + 1].timestamp

\* C15 (Spec), as stated.  Start gating: an analysis runs in webcam mode only
\* with camera access granted and in upload mode only with a video selected;
\* once getUserMedia has been rejected, no analysis ever runs from the webcam view.
C15_NeverAfterRejection ==
    /\ isAnalyzing => /\ tab = "webcam" => hasCamera
                      /\ tab = "upload" => uploadedVideo
    /\ denied => ~(tab = "webcam" /\ isAnalyzing)

\* C15 (Spec), amended.  An analysis starts in webcam mode only with camera
\* access granted (and its stream stored) and in upload mode only with a video
\* selected; while the webcam view whose getUserMedia call was rejected stays
\* mounted, hasCamera is false, no stream is stored, no timer is set and no
\* reading is pushed.
C15_StartGating ==
    [][/\ (~isAnalyzing /\ isAnalyzing') =>
              /\ tab = "webcam" => (hasCamera /\ streamRef)
              /\ tab = "upload" => uploadedVideo
       /\ CameraRejected =>
              /\ ~streamRef /\ ~isAnalyzing /\ timers = <<>>
              /\ tab' = "webcam" =>
                    /\ ~hasCamera' /\ ~streamRef' /\ ~isAnalyzing'
                    /\ timers' = <<>>
                    /\ pushed' = pushed]_vars

\* the camera is refused on a page that holds readings of an earlier run
C15_Witness ==
    /\ CameraRejected
    /\ denied
    /\ postureData # <<>>
    /\ ~isAnalyzing

\* C16 (Spec).  Timer/flag agreement: at most one interval timer is set, and one
\* is set if and only if isAnalyzing is true, whatever the order of starts,
\* stops, timer callbacks and tab switches.
C16_TimerFlag ==
    /\ Len(timers) <= 1
    /\ timers # <<>> <=> isAnalyzing

\* a second run, from the upload view, after a tab switch ended the first
C16_Witness ==
    /\ tab = "upload"
    /\ isAnalyzing
    /\ Len(timers) = 1
    /\ intervalRef = timers
    /\ pushed # <<>>
    /\ pendingData = <<>>

\* C17 (Spec), as stated.  No events outside a run: readings are pushed only by
\* callbacks of a set timer, and while no analysis runs postureData and
\* currentPosture stay as they are.
C17_FrozenAfterStop ==
    [][/\ pushed' # pushed => timers # <<>>
       /\ (~isAnalyzing /\ ~isAnalyzing') =>
              /\ postureData' = postureData
              /\ currentPosture' = currentPosture]_vars

\* C17 (Spec), amended.  A reading is pushed only by a callback of a set timer
\* during a run, and none while no analysis runs; postureData and currentPosture
\* change only when a render applies queued readings, so once the readings
\* queued before the stop are applied they stay as they are until the next start.
C17_NoPushOutsideRun ==
    [][/\ pushed' # pushed =>
              /\ timers # <<>> /\ isAnalyzing
              /\ pushed' = Append(pushed, pendingData'[Len(pendingData')])
       /\ ~isAnalyzing => pushed' = pushed
       /\ (postureData' # postureData \/ currentPosture' # currentPosture) =>
              /\ pendingData # <<>>
              /\ pendingData' = <<>>]_vars

\* the analysis has been stopped with a reading still queued
C17_Witness ==
    /\ ~isAnalyzing
    /\ timers = <<>>
    /\ pendingData # <<>>
    /\ postureData # <<>>

\* C18 (SpecWindowFair).  Progress while running: every timer callback queues
\* exactly one reading, a render applies all the queued readings, none lost and
\* none twice, and so a running analysis leads to a list of 50 readings.
C18_Progress ==
    /\ [][pushed' # pushed =>
              /\ Len(pushed') = Len(pushed) + 1
              /\ pendingData' = Append(pendingData, pushed'[Len(pushed')])]_vars
    /\ [][pendingData' # pendingData /\ pushed' = pushed =>
              /\ pendingData' = <<>>
              /\ postureData' =
                    LastOf(postureData \o pendingData,
                           Min(Len(postureData) + Len(pendingData), 50))]_vars
    /\ isAnalyzing ~> Len(postureData) = 50

\* the list is full while two more readings wait for a render
C18_Witness ==
    /\ isAnalyzing
    /\ Len(postureData) = 50
    /\ Len(pendingData) = 2
    /\ postureData = SubSeq(pushed, 1, 50)

\* C19 (SpecProducer).  Reasons match category: every reading produced by
\* analyzePosture has an empty warnings list if and only if its status is good,
\* and exactly one warning when its status is warning or bad.
C19_WarningsMatchStatus ==
    \A i \in 1..Len(pushed) :
        /\ pushed[i].warnings = <<>> <=> pushed[i].status = "good"
        /\ pushed[i].status \in {"warning", "bad"} => Len(pushed[i].warnings) = 1

\* a bad and a warning reading of desk-sitting, each with its one warning
C19_Witness ==
    /\ Len(pushed) = 2
    /\ pushed[1].status = "bad" /\ pushed[1].warnings = <<"Neck angle > 30 deg">>
    /\ pushed[2].status = "warning" /\ pushed[2].warnings = <<"Back not straight">>

\* C20 (SpecProducer).  Producer classification: with the draw r, analyzePosture
\* returns bad if r < 0.3, warning if 0.3 <= r < 0.5 and good otherwise for
\* squat, and bad if r < 0.2, warning if 0.2 <= r < 0.4 and good otherwise for
\* desk-sitting; it never returns neutral, and no list holds a neutral reading.
C20_Classification ==
    /\ lastDraw # <<>> =>
          LET activity == lastDraw[1]
              r == lastDraw[2]
              status == pushed[Len(pushed)].status
          IN  /\ activity = "squat" =>
                    status = IF r < 30 THEN "bad"
                             ELSE IF r < 50 THEN "warning" ELSE "good"
              /\ activity = "desk-sitting" =>
                    status = IF r < 20 THEN "bad"
                             ELSE IF r < 40 THEN "warning" ELSE "good"
              /\ activity \in {"squat", "desk-sitting"}
    /\ \A i \in 1..Len(pushed) : pushed[i].status # "neutral"
    /\ \A i \in 1..Len(postureData) : postureData[i].status # "neutral"

\* the draw 0.2 itself, with desk-sitting, is a warning; it was bad with squat
C20_Witness ==
    /\ lastDraw = <<"desk-sitting", 20>>
    /\ Len(pushed) = 2
    /\ pushed[2].status = "warning"
    /\ pushed[1].status = "bad"
    /\ Len(postureData) = 2

\* C21 (Spec).  Activity fixed per run: the timer set by startAnalysis holds the
\* activity selected at that moment, it is the same timer for as long as the
\* run lasts, and every reading it produces is classified with that activity,
\* whatever activity is selected meanwhile.
C21_ActivityFixed ==
    [][/\ (~isAnalyzing /\ isAnalyzing') =>
              /\ intervalRef' # <<>>
              /\ intervalRef'[1].activity = currentActivity
       /\ (isAnalyzing /\ isAnalyzing') => intervalRef' = intervalRef
       /\ pushed' # pushed =>
              /\ intervalRef # <<>>
              /\ lastDraw'[1] = intervalRef[1].activity
              /\ pushed'[Len(pushed')].warnings
                    = WarningsFor(intervalRef[1].activity, lastDraw'[2])]_vars

\* a run started with squat goes on classifying for squat after desk-sitting
\* has been selected
C21_Witness ==
    /\ isAnalyzing
    /\ currentActivity = "desk-sitting"
    /\ intervalRef # <<>>
    /\ intervalRef[1].activity = "squat"
    /\ lastDraw = <<"squat", 30>>
    /\ pendingData # <<>>
    /\ pendingData[Len(pendingData)].warnings = <<"Back angle could be improved">>

\* C22 (Spec).  Current posture tracks the window: currentPosture is null if and
\* only if the list is empty, and otherwise it is the last reading of the list.
C22_CurrentPosture ==
    /\ currentPosture = <<>> <=> postureData = <<>>
    /\ postureData # <<>> => currentPosture = <<postureData[Len(postureData)]>>

\* three readings, the last unlike the first, after the run was ended by a
\* tab switch
C22_Witness ==
    /\ Len(postureData) = 3
    /\ currentPosture = <<postureData[3]>>
    /\ postureData[3].status # postureData[1].status
    /\ ~isAnalyzing
    /\ tab = "upload"

\* C23 (SpecFullPage).  Window never shrinks: no step of the page makes the list
\* shorter, a list of 50 stays at 50, and a reading leaves the list only as
\* the oldest one when newer readings are applied, whatever run or activity it
\* came from.
C23_NeverShrinks ==
    [][LET added == IF postureData' # postureData THEN Len(pendingData) ELSE 0
           evicted == Len(postureData) + added - Len(postureData')
       IN  /\ Len(postureData') >= Len(postureData)
           /\ Len(postureData) = 50 => Len(postureData') = 50
           /\ evicted >= 0 /\ evicted <= added
           /\ \A i \in (evicted + 1)..Len(postureData) :
                  postureData'[i - evicted] = postureData[i]]_vars

\* the window is still full after two evictions, a stop, a tab switch and a
\* change of activity; the oldest readings left are from the first run
C23_Witness ==
    /\ Len(Applied) = 52
    /\ Len(postureData) = 50
    /\ postureData[1] = pushed[3]
    /\ ~isAnalyzing
    /\ tab = "upload"
    /\ currentActivity = "desk-sitting"

\* C24 (SpecWindow).  Incremental streak equivalence: when readings are applied,
\* the currentStreak recomputed from the list is the one before, plus one and
\* capped at 50 for each good reading, and set to 0 by each reading that is not
\* good, also when the oldest reading is evicted.
C24_IncrementalStreak ==
    [][postureData' # postureData =>
          stats'.currentStreak = RunningCounter(stats.currentStreak, pendingData)]_vars

\* 52 good readings in a row: the streak is held at the cap
C24_Witness ==
    /\ Len(Applied) = 52
    /\ stats.currentStreak = 50
    /\ pushed[1].status = "good"
    /\ pushed[52].status = "good"

\* C25 (SpecFullPage).  The snapshot depends only on the statuses and the
\* confidences of the window: the statistics are those of the list with every
\* timestamp and every warnings list replaced, in two different ways, and so
\* the same for any two lists that agree on status and confidence at each
\* position, whatever was pushed and evicted before.
C25_OnlyStatusAndConfidence ==
    /\ stats = StatsOf(Relabelled(postureData, 0, <<>>))
    /\ stats = StatsOf(Relabelled(postureData, -1, <<"a", "b">>))

\* after evictions, the window holds two readings of the same status and
\* confidence with different warnings and timestamps
C25_Witness ==
    /\ Len(Applied) = 52
    /\ postureData[49].status = "warning" /\ postureData[50].status = "warning"
    /\ postureData[49].confidence = postureData[50].confidence
    /\ postureData[49].warnings # postureData[50].warnings
    /\ postureData[49].timestamp # postureData[50].timestamp

=============================================================================
